---- MODULE Spec2Model ----
(***************************************************************************)
(* rrt0.c: the realtime multitask monitor of mruby/c.                      *)
(*                                                                         *)
(* The mainline (mrbc_create_task, mrbc_run, the VM slice and the guest    *)
(* operations called from it) is one sequential process whose position is  *)
(* pc.  mrbc_tick is the timer interrupt: it runs to completion between    *)
(* any two mainline steps.  A region between hal_disable_irq() and         *)
(* hal_enable_irq() is one step; every statement outside such a region     *)
(* that touches shared state is a step of its own.                         *)
(***************************************************************************)
EXTENDS Integers, Sequences, FiniteSets, TLC

(***** Bounds **************************************************************)
NTasks   == 3      \* TCBs that can be created
NMutex   == 2      \* mutexes
MaxTicks == 2      \* mrbc_tick invocations in one behaviour of Spec
MaxOps   == 2      \* guest operations called in one behaviour of Spec
MaxMs    == 2      \* largest sleep_ms argument

(***** Program constants ***************************************************)
TIMESLICE_TICK == 10
Limb           == 65536         \* tick_ is a uint32_t, kept as two 16-bit limbs
PrioWidth      == 8             \* priority is a uint8_t

NULL == 0

Tasks   == 1..NTasks
Mutexes == 1..NMutex

PrioMod  == 2^PrioWidth
\* timeslice is an 8-bit field of the TCB
SliceMod  == 256

\* uint32_t arithmetic on <<high limb, low limb>>: a + n modulo 2^32
U32(n) == <<(n \div Limb) % Limb, n % Limb>>
U32Add(a, n) ==
  LET lo == a[2] + (n % Limb)
  IN  <<(a[1] + (n \div Limb) + (lo \div Limb)) % Limb, lo % Limb>>

\* enum MrbcTaskState / MrbcTaskReason (rrt0.h)
TASKSTATE_DOMANT    == "DOMANT"
TASKSTATE_READY     == "READY"
TASKSTATE_RUNNING   == "RUNNING"
TASKSTATE_WAITING   == "WAITING"
TASKSTATE_SUSPENDED == "SUSPENDED"
TASKREASON_SLEEP    == "SLEEP"
TASKREASON_MUTEX    == "MUTEX"

\* priorities a creator stores in a TCB it supplies
\* change_priority arguments (an int); 356 is 100 after (uint8_t)
PrioArgs == {200, 356}
\* MRBC_TASK_DEFAULT_PRIORITY (rrt0.h): the priority of MRBC_TCB_INITIALIZER
MRBC_TASK_DEFAULT_PRIORITY == 128
\* sleep_ms arguments
MsArgs   == 0..MaxMs
\* tick_ when mrbc_run is called: ticks before it only count tick_ up, and
\* after 2^32 - 2 of them the counter is about to wrap
TickZero == U32(0)
TickWrap == <<Limb - 1, Limb - 2>>

VARIABLES
  q_domant_, q_ready_, q_waiting_, q_suspended_,  \* queue heads
  tick_,                                          \* tick counter
  tcb,        \* TCB fields of every task, vm->flag_preemption included
  mutex,      \* MrbcMutex records
  alloc,      \* TCBs handed to mrbc_create_task so far
  pc,         \* position of the mainline
  cur,        \* mrbc_run's local tcb
  res,        \* mrbc_run's local res
  req,        \* the guest operation's tcb (find_requested_task's result)
  nticks,     \* mrbc_tick invocations so far (bounds the behaviour)
  nops,       \* guest operations called so far (bounds the behaviour)
  ord,        \* history: order of insertion into the ready / waiting queue
  slept,      \* history: per task, sleep_ms argument and ticks since the call
  handoff,    \* history: <<to, from>> of a mutex hand-off since the last dispatch
  ret,        \* the value mrbc_mutex_trylock returned last
  hist,       \* history: who acquired which mutex, whose lock call is pending,
              \* VM dispatches since the dispatcher selected
  lim         \* the bounds of the behaviour; never changes

vars == <<q_domant_, q_ready_, q_waiting_, q_suspended_, tick_, tcb, mutex,
          alloc, pc, cur, res, req, nticks, nops, ord, slept, handoff, ret, hist, lim>>

\* The scheduler's memory as one value, for the queue functions.
Mem == [tcb |-> tcb, q_domant_ |-> q_domant_, q_ready_ |-> q_ready_,
        q_waiting_ |-> q_waiting_, q_suspended_ |-> q_suspended_]

\* MRBC_TCB_INITIALIZER (rrt0.h): a fresh TCB is READY, detached, no VM.
MRBC_TCB_INITIALIZER ==
  [next |-> NULL, priority |-> MRBC_TASK_DEFAULT_PRIORITY, priority_preemption |-> 0,
   timeslice |-> 0, state |-> TASKSTATE_READY, reason |-> TASKREASON_SLEEP,
   wakeup_tick |-> U32(0), mutex |-> NULL, vm |-> NULL, flag_preemption |-> 0]

\* MRBC_MUTEX_INITIALIZER (rrt0.h)
MRBC_MUTEX_INITIALIZER == [lock |-> 0, tcb |-> NULL]

(***** Queue manager *******************************************************)

\* the switch on p_tcb->state of q_insert_task / q_delete_task
pp_q(state) ==
  CASE state = TASKSTATE_DOMANT    -> "q_domant_"
    [] state = TASKSTATE_READY     -> "q_ready_"
    [] state = TASKSTATE_RUNNING   -> "q_ready_"
    [] state = TASKSTATE_WAITING   -> "q_waiting_"
    [] state = TASKSTATE_SUSPENDED -> "q_suspended_"

\* the while(1) of q_insert_task: the element after which p_tcb goes.
\* fuel stops the walk on a list that has no end (the code would not return).
RECURSIVE InsertPoint(_, _, _, _)
InsertPoint(tc, p, p_tcb, fuel) ==
  IF fuel = 0 \/ tc[p].next = NULL
       \/ tc[p_tcb].priority_preemption < tc[tc[p].next].priority_preemption
  THEN p
  ELSE InsertPoint(tc, tc[p].next, p_tcb, fuel - 1)

q_insert_task(m, p_tcb) ==
  LET qn   == pp_q(m.tcb[p_tcb].state)
      head == m[qn]
  IN  IF head = NULL
         \/ m.tcb[p_tcb].priority_preemption < m.tcb[head].priority_preemption
      THEN [m EXCEPT !.tcb[p_tcb].next = head, ![qn] = p_tcb]
      ELSE LET p == InsertPoint(m.tcb, head, p_tcb, NTasks)
           IN  [m EXCEPT !.tcb[p_tcb].next = m.tcb[p].next,
                         !.tcb[p].next = p_tcb]

\* the while(p) of q_delete_task: the element whose next is p_tcb, or NULL
RECURSIVE FindPrev(_, _, _, _)
FindPrev(tc, p, p_tcb, fuel) ==
  IF p = NULL \/ fuel = 0 THEN NULL
  ELSE IF tc[p].next = p_tcb THEN p
  ELSE FindPrev(tc, tc[p].next, p_tcb, fuel - 1)

\* mutant: only the head of a queue is unlinked
q_delete_task_head_only(m, p_tcb) ==
  LET qn   == pp_q(m.tcb[p_tcb].state)
      head == m[qn]
  IN  IF head = p_tcb
      THEN [m EXCEPT ![qn] = m.tcb[p_tcb].next, !.tcb[p_tcb].next = NULL]
      ELSE m

q_delete_task(m, p_tcb) ==
  LET qn   == pp_q(m.tcb[p_tcb].state)
      head == m[qn]
  IN  IF head = NULL THEN m
      ELSE IF head = p_tcb
      THEN [m EXCEPT ![qn] = m.tcb[p_tcb].next, !.tcb[p_tcb].next = NULL]
      ELSE LET p == FindPrev(m.tcb, head, p_tcb, NTasks)
           IN  IF p = NULL THEN m
               ELSE [m EXCEPT !.tcb[p].next = m.tcb[p_tcb].next,
                              !.tcb[p_tcb].next = NULL]

\* find_requested_task: the first TCB on the ready queue whose vm is vm
RECURSIVE ScanReady(_, _, _, _)
ScanReady(tc, p, vm, fuel) ==
  IF p = NULL \/ fuel = 0 THEN NULL
  ELSE IF tc[p].vm = vm THEN p
  ELSE ScanReady(tc, tc[p].next, vm, fuel - 1)

find_requested_task(vm) == ScanReady(tcb, q_ready_, vm, NTasks)

(***** Reading a queue (for history and properties) ************************)

\* the TCBs reached from head h by next, in order; stops after NTasks+1 links
RECURSIVE Walk(_, _, _)
Walk(tc, h, fuel) ==
  IF h = NULL \/ fuel = 0 THEN <<>>
  ELSE <<h>> \o Walk(tc, tc[h].next, fuel - 1)

QSeq(m, qn) == Walk(m.tcb, m[qn], NTasks + 1)
Range(s)    == {s[i] : i \in 1..Len(s)}
Pos(s, x)   == CHOOSE i \in 1..Len(s) : s[i] = x

(***** History *************************************************************)

OrdQueues == {"q_ready_", "q_waiting_"}

\* ord after a step that ends in memory m2 and (re)inserted the TCBs of ins,
\* in that order: what left a queue is dropped, what was inserted goes last.
OrdAfter(m2, ins) ==
  [qn \in OrdQueues |->
     LET now == Range(QSeq(m2, qn))
     IN  SelectSeq(ord[qn], LAMBDA x : x \in now /\ x \notin Range(ins))
           \o SelectSeq(ins, LAMBDA x : x \in now)]

NoSleep == [ms |-> 0, el |-> 0]

\* inside[x]: the tasks whose lock or trylock of x succeeded and that have not
\* unlocked it since; pending[t]: the mutex whose lock call t has not returned
\* from; ndisp: calls of mrbc_vm_run since line 399
NoHist == [inside  |-> [x \in Mutexes |-> {}],
           pending |-> [t \in Tasks |-> NULL],
           ndisp   |-> 0]

(***** State ***************************************************************)

\* the state after mrbc_init, for a behaviour bounded by l
InitWith(starts, l) ==
  /\ lim = l
  /\ q_domant_ = NULL /\ q_ready_ = NULL
  /\ q_waiting_ = NULL /\ q_suspended_ = NULL
  /\ tick_ \in starts
  /\ tcb = [t \in Tasks |-> MRBC_TCB_INITIALIZER]
  /\ mutex = [x \in Mutexes |-> MRBC_MUTEX_INITIALIZER]
  /\ alloc = {}
  /\ pc = "boot"
  /\ cur = NULL
  /\ res = 0
  /\ req = NULL
  /\ nticks = 0
  /\ nops = 0
  /\ ord = [qn \in OrdQueues |-> <<>>]
  /\ slept = [t \in Tasks |-> NoSleep]
  /\ handoff = <<>>
  /\ ret = 0
  /\ hist = NoHist

\* TCBs a creator passes to mrbc_create_task: NULL (the initializer), or its
\* own detached TCB with a priority and a state of its choice
FreshTcb == MRBC_TCB_INITIALIZER
CallerTcb(p, st) ==
  [MRBC_TCB_INITIALIZER EXCEPT !.priority = p, !.state = st]

\* every operation, short behaviours; inits[k] are the TCBs the k-th call of
\* mrbc_create_task may be given
Init ==
  InitWith({TickZero},
           [notimer |-> FALSE, ticks |-> MaxTicks, ops |-> MaxOps, ms |-> MsArgs,
            inits |-> [k \in Tasks |->
                         {FreshTcb, CallerTcb(100, TASKSTATE_READY),
                          CallerTcb(100, TASKSTATE_DOMANT)}]])

\* store memory m
Store(m) ==
  /\ tcb' = m.tcb
  /\ q_domant_' = m.q_domant_
  /\ q_ready_' = m.q_ready_
  /\ q_waiting_' = m.q_waiting_
  /\ q_suspended_' = m.q_suspended_

(***** Tick handler ********************************************************)

\* lines 287-298: the running task's timeslice
TickSlice(m) ==
  LET h == m.q_ready_
  IN  IF h # NULL /\ m.tcb[h].state = TASKSTATE_RUNNING /\ m.tcb[h].timeslice > 0
      THEN IF m.tcb[h].timeslice - 1 = 0
           THEN [m EXCEPT !.tcb[h].timeslice = 0, !.tcb[h].flag_preemption = 1]
           ELSE [m EXCEPT !.tcb[h].timeslice = @ - 1]
      ELSE m

\* the test of line 306
Wakes(tc, t, now) ==
  tc[t].reason = TASKREASON_SLEEP /\ tc[t].wakeup_tick = now

\* lines 300-313: the walk of the waiting queue, next read before the move
RECURSIVE TickWake(_, _, _)
TickWake(m, p, now) ==
  IF p = NULL THEN m
  ELSE LET t   == p
           nxt == m.tcb[p].next
       IN  IF Wakes(m.tcb, t, now)
           THEN TickWake(
                  q_insert_task(
                    [q_delete_task(m, t) EXCEPT
                       !.tcb[t].state = TASKSTATE_READY,
                       !.tcb[t].timeslice = TIMESLICE_TICK], t),
                  nxt, now)
           ELSE TickWake(m, nxt, now)

\* lines 316-320 (and 527-531, 621-625): flag every RUNNING task on the ready queue
FlagRunning(m) ==
  LET onq == Range(QSeq(m, "q_ready_"))
  IN  [m EXCEPT !.tcb = [t \in Tasks |->
         IF t \in onq /\ m.tcb[t].state = TASKSTATE_RUNNING
         THEN [m.tcb[t] EXCEPT !.flag_preemption = 1]
         ELSE m.tcb[t]]]

\* lines 285-321: the body of mrbc_tick
tick ==
  LET now   == U32Add(tick_, 1)
      woken == SelectSeq(QSeq(Mem, "q_waiting_"),
                         LAMBDA t : Wakes(tcb, t, now))
      m1    == TickSlice(Mem)
      m2    == TickWake(m1, m1.q_waiting_, now)
      m3    == IF woken # <<>> THEN FlagRunning(m2) ELSE m2
  IN  /\ tick_' = now
      /\ Store(m3)
      /\ ord' = OrdAfter(m3, woken)
      /\ slept' = [t \in Tasks |->
           IF /\ tcb[t].state = TASKSTATE_WAITING
              /\ tcb[t].reason = TASKREASON_SLEEP
              /\ slept[t].el <= slept[t].ms
           THEN [slept[t] EXCEPT !.el = @ + 1]
           ELSE slept[t]]

\* the timer interrupt: mrbc_tick between two steps of the mainline
mrbc_tick ==
  /\ pc # "boot"
  /\ ~lim.notimer
  /\ nticks < lim.ticks
  /\ tick
  /\ nticks' = nticks + 1
  /\ UNCHANGED <<mutex, alloc, pc, cur, res, req, nops, handoff, ret, hist, lim>>

(***** Bootstrap ***********************************************************)

\* mrbc_create_task(vm_code, tcb) for the TCB t with contents init: the
\* initializer when the caller passes NULL, the caller's record otherwise.
\* The TCB is detached.  An allocation or load failure returns before the
\* queue is touched and is not a step.
create_task(t, init) ==
  LET t1 == [init EXCEPT !.timeslice = TIMESLICE_TICK,
                         !.priority_preemption = init.priority]
      t2 == IF t1.state # TASKSTATE_DOMANT
            THEN [t1 EXCEPT !.vm = t, !.flag_preemption = 0]
            ELSE t1
      m  == q_insert_task([Mem EXCEPT !.tcb[t] = t2], t)
  IN  /\ Store(m)
      /\ ord' = OrdAfter(m, <<t>>)
      /\ alloc' = alloc \cup {t}

NewTcb == CHOOSE t \in Tasks \ alloc : \A u \in Tasks \ alloc : t <= u

mrbc_create_task ==
  /\ pc = "boot"
  /\ alloc # Tasks
  /\ \E init \in lim.inits[NewTcb] : create_task(NewTcb, init)
  /\ UNCHANGED <<tick_, mutex, pc, cur, res, req, nticks, nops, slept, handoff, ret, hist, lim>>

(***** Dispatcher **********************************************************)

\* the call of mrbc_run
mrbc_run_enter ==
  /\ pc = "boot"
  /\ pc' = "select"
  /\ UNCHANGED <<q_domant_, q_ready_, q_waiting_, q_suspended_, tick_, tcb,
                 mutex, alloc, cur, res, req, nticks, nops, ord, slept, handoff, ret, hist, lim>>

\* lines 399-404: read the head of the ready queue
mrbc_run_select ==
  /\ pc = "select"
  /\ cur' = q_ready_
  /\ pc' = IF q_ready_ = NULL THEN "idle_call" ELSE "set_running"
  /\ UNCHANGED <<q_domant_, q_ready_, q_waiting_, q_suspended_, tick_, tcb,
                 mutex, alloc, res, req, nticks, nops, ord, slept, handoff, ret, hist, lim>>

\* line 402: the dispatcher calls hal_idle_cpu()
mrbc_run_idle ==
  /\ pc = "idle_call"
  /\ pc' = "idle"
  /\ UNCHANGED <<q_domant_, q_ready_, q_waiting_, q_suspended_, tick_, tcb,
                 mutex, alloc, cur, res, req, nticks, nops, ord, slept, handoff, ret, hist, lim>>

\* line 402: hal_idle_cpu() returns, continue
hal_idle_cpu ==
  /\ pc = "idle"
  /\ pc' = "select"
  /\ UNCHANGED <<q_domant_, q_ready_, q_waiting_, q_suspended_, tick_, tcb,
                 mutex, alloc, cur, res, req, nticks, nops, ord, slept, handoff, ret, hist, lim>>

\* lines 407-408
mrbc_run_set_running ==
  /\ pc = "set_running"
  /\ tcb' = [tcb EXCEPT ![cur].state = TASKSTATE_RUNNING]
  /\ res' = 0
  /\ handoff' = <<>>
  /\ pc' = IF lim.notimer THEN "nt_test" ELSE "clear_flag"
  /\ UNCHANGED <<q_domant_, q_ready_, q_waiting_, q_suspended_, tick_,
                 mutex, alloc, cur, req, nticks, nops, ord, slept, ret, hist, lim>>

\* line 411, and the call of mrbc_vm_run of line 412; history: a pending
\* lock call of the task returns when its VM goes on
mrbc_run_clear_flag ==
  /\ pc = "clear_flag"
  /\ tcb' = [tcb EXCEPT ![cur].flag_preemption = 0]
  /\ hist' = IF hist.pending[cur] = NULL THEN hist
             ELSE [hist EXCEPT !.pending[cur] = NULL,
                               !.inside[hist.pending[cur]] = @ \cup {cur}]
  /\ pc' = "vm"
  /\ UNCHANGED <<q_domant_, q_ready_, q_waiting_, q_suspended_, tick_,
                 mutex, alloc, cur, res, req, nticks, nops, ord, slept, handoff, ret, lim>>

\* MRBC_NO_TIMER, line 414: the test of the slice loop
nt_test ==
  /\ pc = "nt_test"
  /\ pc' = IF tcb[cur].timeslice > 0 THEN "nt_flag" ELSE "nt_tick"
  /\ UNCHANGED <<q_domant_, q_ready_, q_waiting_, q_suspended_, tick_, tcb,
                 mutex, alloc, cur, res, req, nticks, nops, ord, slept, handoff, ret, hist, lim>>

\* MRBC_NO_TIMER, line 415, and the call of mrbc_vm_run of line 416
nt_flag ==
  /\ pc = "nt_flag"
  /\ tcb' = [tcb EXCEPT ![cur].flag_preemption = 1]
  /\ hist' = [hist EXCEPT !.ndisp = @ + 1]
  /\ pc' = "vm"
  /\ UNCHANGED <<q_domant_, q_ready_, q_waiting_, q_suspended_, tick_,
                 mutex, alloc, cur, res, req, nticks, nops, ord, slept, handoff, ret, lim>>

\* MRBC_NO_TIMER, lines 417-419: timeslice-- on the 8-bit field, and the two
\* breaks
nt_dec ==
  /\ pc = "nt_dec"
  /\ tcb' = [tcb EXCEPT ![cur].timeslice = (@ - 1) % SliceMod]
  /\ pc' = IF res < 0 \/ tcb[cur].state # TASKSTATE_RUNNING
           THEN "nt_tick" ELSE "nt_test"
  /\ UNCHANGED <<q_domant_, q_ready_, q_waiting_, q_suspended_, tick_,
                 mutex, alloc, cur, res, req, nticks, nops, ord, slept, handoff, ret, hist, lim>>

\* MRBC_NO_TIMER, line 421: the dispatcher calls mrbc_tick itself
nt_tick ==
  /\ pc = "nt_tick"
  /\ nticks < lim.ticks
  /\ tick
  /\ nticks' = nticks + 1
  /\ hist' = [hist EXCEPT !.ndisp = 0]
  /\ pc' = "end_run"
  /\ UNCHANGED <<mutex, alloc, cur, res, req, nops, handoff, ret, lim>>

\* lines 426-431: the VM returned a negative result
run_terminate ==
  LET m == q_insert_task(
             [q_delete_task(Mem, cur) EXCEPT
                !.tcb[cur].state = TASKSTATE_DOMANT], cur)
  IN  /\ Store(m)
      /\ ord' = OrdAfter(m, <<>>)

mrbc_run_terminate ==
  /\ pc = "end_run"
  /\ res < 0
  /\ run_terminate
  /\ pc' = "close"
  /\ UNCHANGED <<tick_, mutex, alloc, cur, res, req, nticks, nops, slept, handoff, ret, hist, lim>>

\* lines 432-434: mrbc_vm_end, mrbc_vm_close, tcb->vm = 0
mrbc_run_close ==
  /\ pc = "close"
  /\ tcb' = [tcb EXCEPT ![cur].vm = NULL, ![cur].flag_preemption = 0]
  /\ pc' = "exit_ready"
  /\ UNCHANGED <<q_domant_, q_ready_, q_waiting_, q_suspended_, tick_,
                 mutex, alloc, cur, res, req, nticks, nops, ord, slept, handoff, ret, hist, lim>>

\* lines 436-438: the three reads of the exit test, interrupts enabled
mrbc_run_exit_ready ==
  /\ pc = "exit_ready"
  /\ pc' = IF q_ready_ = NULL THEN "exit_waiting" ELSE "select"
  /\ UNCHANGED <<q_domant_, q_ready_, q_waiting_, q_suspended_, tick_, tcb,
                 mutex, alloc, cur, res, req, nticks, nops, ord, slept, handoff, ret, hist, lim>>

mrbc_run_exit_waiting ==
  /\ pc = "exit_waiting"
  /\ pc' = IF q_waiting_ = NULL THEN "exit_suspended" ELSE "select"
  /\ UNCHANGED <<q_domant_, q_ready_, q_waiting_, q_suspended_, tick_, tcb,
                 mutex, alloc, cur, res, req, nticks, nops, ord, slept, handoff, ret, hist, lim>>

\* the break of line 437 and the return 0 of line 456
mrbc_run_exit_suspended ==
  /\ pc = "exit_suspended"
  /\ pc' = IF q_suspended_ = NULL THEN "done" ELSE "select"
  /\ UNCHANGED <<q_domant_, q_ready_, q_waiting_, q_suspended_, tick_, tcb,
                 mutex, alloc, cur, res, req, nticks, nops, ord, slept, handoff, ret, hist, lim>>

\* mutant: the switch leaves the task RUNNING
run_switch_stays_running ==
  IF tcb[cur].state = TASKSTATE_RUNNING /\ tcb[cur].timeslice = 0
  THEN LET m2 == q_insert_task(
                   [q_delete_task(Mem, cur) EXCEPT
                      !.tcb[cur].timeslice = TIMESLICE_TICK], cur)
       IN  Store(m2) /\ ord' = OrdAfter(m2, <<cur>>)
  ELSE Store(Mem) /\ ord' = ord

\* lines 442-453: task switch
run_switch ==
  IF tcb[cur].state = TASKSTATE_RUNNING
  THEN LET m1 == [Mem EXCEPT !.tcb[cur].state = TASKSTATE_READY]
       IN  IF m1.tcb[cur].timeslice = 0
           THEN LET m2 == q_insert_task(
                            [q_delete_task(m1, cur) EXCEPT
                               !.tcb[cur].timeslice = TIMESLICE_TICK], cur)
                IN  Store(m2) /\ ord' = OrdAfter(m2, <<cur>>)
           ELSE Store(m1) /\ ord' = ord
  ELSE Store(Mem) /\ ord' = ord

mrbc_run_switch ==
  /\ pc = "end_run"
  /\ res >= 0
  /\ run_switch
  /\ pc' = "select"
  /\ UNCHANGED <<tick_, mutex, alloc, cur, res, req, nticks, nops, slept, handoff, ret, hist, lim>>

(***** The VM slice (mrbc_vm_run) ******************************************)

\* where mrbc_vm_run returns to: line 417 in the MRBC_NO_TIMER build, line
\* 426 otherwise
VmReturn == IF lim.notimer THEN "nt_dec" ELSE "end_run"

\* an instruction that calls nothing of the monitor, and the sample of
\* flag_preemption that follows it
vm_instruction ==
  /\ pc = "vm"
  /\ pc' = IF tcb[cur].flag_preemption = 1 THEN VmReturn ELSE "vm"
  /\ UNCHANGED <<q_domant_, q_ready_, q_waiting_, q_suspended_, tick_, tcb,
                 mutex, alloc, cur, res, req, nticks, nops, ord, slept, handoff, ret, hist, lim>>

\* the bytecode ends or fails: mrbc_vm_run returns a negative value
vm_terminate ==
  /\ pc = "vm"
  /\ res' = -1
  /\ pc' = VmReturn
  /\ UNCHANGED <<q_domant_, q_ready_, q_waiting_, q_suspended_, tick_, tcb,
                 mutex, alloc, cur, req, nticks, nops, ord, slept, handoff, ret, hist, lim>>

\* after an instruction that called the monitor the VM samples flag_preemption
vm_check ==
  /\ pc = "vm_check"
  /\ pc' = IF tcb[cur].flag_preemption = 1 THEN VmReturn ELSE "vm"
  /\ UNCHANGED <<q_domant_, q_ready_, q_waiting_, q_suspended_, tick_, tcb,
                 mutex, alloc, cur, res, req, nticks, nops, ord, slept, handoff, ret, hist, lim>>

(***** Guest-facing operations ********************************************)
\* Each is called from an instruction of the running VM (pc = "vm").  The
\* c_XXX bindings resolve the calling VM to its TCB with find_requested_task
\* and do nothing when it is not found.

Requested == find_requested_task(tcb[cur].vm)

\* a sleep that counts from the tick after the call
sleep_ms_from_next_tick(t, ms) ==
  LET m == q_insert_task(
             [q_delete_task(Mem, t) EXCEPT
                !.tcb[t].timeslice   = 0,
                !.tcb[t].state       = TASKSTATE_WAITING,
                !.tcb[t].reason      = TASKREASON_SLEEP,
                !.tcb[t].wakeup_tick = U32Add(tick_, ms + 1)], t)
  IN  /\ Store(m)
      /\ ord' = OrdAfter(m, <<t>>)
      /\ slept' = [slept EXCEPT ![t] = [ms |-> ms, el |-> 0]]

\* lines 466-473 of mrbc_sleep_ms
sleep_ms(t, ms) ==
  LET m == q_insert_task(
             [q_delete_task(Mem, t) EXCEPT
                !.tcb[t].timeslice   = 0,
                !.tcb[t].state       = TASKSTATE_WAITING,
                !.tcb[t].reason      = TASKREASON_SLEEP,
                !.tcb[t].wakeup_tick = U32Add(tick_, ms)], t)
  IN  /\ Store(m)
      /\ ord' = OrdAfter(m, <<t>>)
      /\ slept' = [slept EXCEPT ![t] = [ms |-> ms, el |-> 0]]

c_sleep_ms ==
  /\ pc = "vm"
  /\ nops < lim.ops
  /\ nops' = nops + 1
  /\ Requested # NULL
  /\ \E ms \in lim.ms : sleep_ms(Requested, ms)
  /\ req' = Requested
  /\ pc' = "sleep_flag"
  /\ UNCHANGED <<tick_, mutex, alloc, cur, res, nticks, handoff, ret, hist, lim>>

\* the flag_preemption = 1 that ends mrbc_sleep_ms (475), mrbc_relinquish
\* (486), mrbc_change_priority (499) and mrbc_suspend_task (515), written
\* with interrupts enabled
SetFlag(at) ==
  /\ pc = at
  /\ tcb' = [tcb EXCEPT ![req].flag_preemption = 1]
  /\ req' = NULL
  /\ pc' = "vm_check"
  /\ UNCHANGED <<q_domant_, q_ready_, q_waiting_, q_suspended_, tick_,
                 mutex, alloc, cur, res, nticks, nops, ord, slept, handoff, ret, hist, lim>>

mrbc_sleep_ms_flag == SetFlag("sleep_flag")

\* line 485 of mrbc_relinquish
c_relinquish ==
  /\ pc = "vm"
  /\ nops < lim.ops
  /\ nops' = nops + 1
  /\ Requested # NULL
  /\ tcb' = [tcb EXCEPT ![Requested].timeslice = 0]
  /\ req' = Requested
  /\ pc' = "relinquish_flag"
  /\ UNCHANGED <<q_domant_, q_ready_, q_waiting_, q_suspended_, tick_,
                 mutex, alloc, cur, res, nticks, ord, slept, handoff, ret, hist, lim>>

mrbc_relinquish_flag == SetFlag("relinquish_flag")

\* lines 496-497 of mrbc_change_priority
change_priority(t, priority) ==
  tcb' = [tcb EXCEPT ![t].priority            = priority % PrioMod,
                     ![t].priority_preemption = priority % PrioMod]

c_change_priority ==
  /\ pc = "vm"
  /\ nops < lim.ops
  /\ nops' = nops + 1
  /\ Requested # NULL
  /\ \E priority \in PrioArgs : change_priority(Requested, priority)
  /\ req' = Requested
  /\ pc' = "change_priority_slice"
  /\ UNCHANGED <<q_domant_, q_ready_, q_waiting_, q_suspended_, tick_,
                 mutex, alloc, cur, res, nticks, ord, slept, handoff, ret, hist, lim>>

\* line 498
mrbc_change_priority_slice ==
  /\ pc = "change_priority_slice"
  /\ tcb' = [tcb EXCEPT ![req].timeslice = 0]
  /\ pc' = "change_priority_flag"
  /\ UNCHANGED <<q_domant_, q_ready_, q_waiting_, q_suspended_, tick_,
                 mutex, alloc, cur, res, req, nticks, nops, ord, slept, handoff, ret, hist, lim>>

mrbc_change_priority_flag == SetFlag("change_priority_flag")

\* lines 509-513 of mrbc_suspend_task
suspend_task(t) ==
  LET m == q_insert_task(
             [q_delete_task(Mem, t) EXCEPT
                !.tcb[t].state = TASKSTATE_SUSPENDED], t)
  IN  /\ Store(m)
      /\ ord' = OrdAfter(m, <<>>)

c_suspend_task ==
  /\ pc = "vm"
  /\ nops < lim.ops
  /\ nops' = nops + 1
  /\ Requested # NULL
  /\ suspend_task(Requested)
  /\ req' = Requested
  /\ pc' = "suspend_flag"
  /\ UNCHANGED <<tick_, mutex, alloc, cur, res, nticks, slept, handoff, ret, hist, lim>>

mrbc_suspend_task_flag == SetFlag("suspend_flag")

\* mrbc_resume_task(t), lines 525-536
resume_task(t) ==
  LET m1 == FlagRunning(Mem)
      m2 == q_insert_task(
              [q_delete_task(m1, t) EXCEPT
                 !.tcb[t].state = TASKSTATE_READY], t)
  IN  /\ Store(m2)
      /\ ord' = OrdAfter(m2, <<t>>)

\* the binding: it resumes the calling task itself
c_resume_task ==
  /\ pc = "vm"
  /\ nops < lim.ops
  /\ nops' = nops + 1
  /\ Requested # NULL
  /\ resume_task(Requested)
  /\ pc' = "vm_check"
  /\ UNCHANGED <<tick_, mutex, alloc, cur, res, req, nticks, slept, handoff, ret, hist, lim>>

\* mrbc_resume_task called by the running task for a suspended task
mrbc_resume_task ==
  /\ pc = "vm"
  /\ nops < lim.ops
  /\ nops' = nops + 1
  /\ \E t \in alloc :
       /\ tcb[t].state = TASKSTATE_SUSPENDED
       /\ resume_task(t)
  /\ pc' = "vm_check"
  /\ UNCHANGED <<tick_, mutex, alloc, cur, res, req, nticks, slept, handoff, ret, hist, lim>>

(***** Mutex ***************************************************************)
\* The caller passes its own TCB: t is the running task.

\* a lock that takes the mutex whoever holds it
mutex_lock_barges(x, t) ==
  /\ mutex' = [mutex EXCEPT ![x].lock = 1, ![x].tcb = t]
  /\ UNCHANGED <<q_domant_, q_ready_, q_waiting_, q_suspended_, tcb, ord>>

\* lines 564-585
mutex_lock(x, t) ==
  IF mutex[x].lock = 0
  THEN /\ mutex' = [mutex EXCEPT ![x].lock = 1, ![x].tcb = t]
       /\ UNCHANGED <<q_domant_, q_ready_, q_waiting_, q_suspended_, tcb, ord>>
  ELSE LET m1 == [q_delete_task(Mem, t) EXCEPT
                    !.tcb[t].state  = TASKSTATE_WAITING,
                    !.tcb[t].reason = TASKREASON_MUTEX,
                    !.tcb[t].mutex  = x]
           m2 == q_insert_task(m1, t)
           m3 == [m2 EXCEPT !.tcb[t].flag_preemption = 1]
       IN  /\ Store(m3)
           /\ ord' = OrdAfter(m3, <<t>>)
           /\ UNCHANGED mutex

\* history: the call returns at once when the caller was not blocked
lock(x) ==
  /\ pc = "vm"
  /\ nops < lim.ops
  /\ nops' = nops + 1
  /\ mutex_lock(x, cur)
  /\ hist' = IF tcb'[cur].state = tcb[cur].state
             THEN [hist EXCEPT !.inside[x] = @ \cup {cur}]
             ELSE [hist EXCEPT !.pending[cur] = x]
  /\ pc' = "vm_check"
  /\ UNCHANGED <<tick_, alloc, cur, res, req, nticks, slept, handoff, ret, lim>>

mrbc_mutex_lock == \E x \in Mutexes : lock(x)

\* a scan that keeps the last match instead of stopping at the first
RECURSIVE LastWaiter(_, _, _, _)
LastWaiter(tc, p, x, fuel) ==
  IF p = NULL \/ fuel = 0 THEN NULL
  ELSE LET r == LastWaiter(tc, tc[p].next, x, fuel - 1)
       IN  IF r # NULL THEN r
           ELSE IF tc[p].reason = TASKREASON_MUTEX /\ tc[p].mutex = x THEN p
           ELSE NULL

\* the scan of lines 606-618: the first TCB on the waiting queue that waits
\* for mutex x, or NULL
RECURSIVE FirstWaiter(_, _, _, _)
FirstWaiter(tc, p, x, fuel) ==
  IF p = NULL \/ fuel = 0 THEN NULL
  ELSE IF tc[p].reason = TASKREASON_MUTEX /\ tc[p].mutex = x THEN p
  ELSE FirstWaiter(tc, tc[p].next, x, fuel - 1)

\* an unlock that releases the lock and lets the woken waiter contend again
mutex_unlock_recontend(x, t) ==
  LET w == FirstWaiter(tcb, q_waiting_, x, NTasks)
  IN  IF w # NULL
      THEN LET m1 == q_insert_task(
                       [q_delete_task(Mem, w) EXCEPT
                          !.tcb[w].state = TASKSTATE_READY], w)
               m2 == FlagRunning(m1)
           IN  /\ mutex' = [mutex EXCEPT ![x].lock = 0]
               /\ Store(m2)
               /\ ord' = OrdAfter(m2, <<w>>)
      ELSE /\ mutex' = [mutex EXCEPT ![x].lock = 0]
           /\ UNCHANGED <<q_domant_, q_ready_, q_waiting_, q_suspended_,
                          tcb, ord>>

\* lines 603-633
mutex_unlock(x, t) ==
  LET w == FirstWaiter(tcb, q_waiting_, x, NTasks)
  IN  IF w # NULL
      THEN LET m1 == q_insert_task(
                       [q_delete_task(Mem, w) EXCEPT
                          !.tcb[w].state = TASKSTATE_READY], w)
               m2 == FlagRunning(m1)
           IN  /\ mutex' = [mutex EXCEPT ![x].tcb = w]
               /\ Store(m2)
               /\ ord' = OrdAfter(m2, <<w>>)
      ELSE /\ mutex' = [mutex EXCEPT ![x].lock = 0]
           /\ UNCHANGED <<q_domant_, q_ready_, q_waiting_, q_suspended_,
                          tcb, ord>>

\* lines 600-601 are the preconditions
unlock(x) ==
  /\ pc = "vm"
  /\ nops < lim.ops
  /\ nops' = nops + 1
  /\ mutex[x].tcb = cur
  /\ mutex[x].lock = 1
  /\ mutex_unlock(x, cur)
  /\ handoff' = IF \E w \in Tasks : tcb[w].state # tcb'[w].state
                 THEN <<CHOOSE w \in Tasks : tcb[w].state # tcb'[w].state, cur>>
                 ELSE handoff
  /\ hist' = [hist EXCEPT !.inside[x] = @ \ {cur}]
  /\ pc' = "vm_check"
  /\ UNCHANGED <<tick_, alloc, cur, res, req, nticks, slept, ret, lim>>

mrbc_mutex_unlock == \E x \in Mutexes : unlock(x)

\* a trylock that takes the mutex whoever holds it
mutex_trylock_steals(x, t) ==
  /\ mutex' = [mutex EXCEPT ![x].lock = 1, ![x].tcb = t]
  /\ ret' = 0

\* lines 647-662
mutex_trylock(x, t) ==
  IF mutex[x].lock = 0
  THEN /\ mutex' = [mutex EXCEPT ![x].lock = 1, ![x].tcb = t]
       /\ ret' = 0
  ELSE /\ UNCHANGED mutex
       /\ ret' = 1

trylock(x) ==
  /\ pc = "vm"
  /\ nops < lim.ops
  /\ nops' = nops + 1
  /\ mutex_trylock(x, cur)
  /\ hist' = IF ret' = 0 THEN [hist EXCEPT !.inside[x] = @ \cup {cur}]
                         ELSE hist
  /\ pc' = "vm_check"
  /\ UNCHANGED <<q_domant_, q_ready_, q_waiting_, q_suspended_, tick_, tcb,
                 alloc, cur, res, req, nticks, ord, slept, handoff, lim>>

mrbc_mutex_trylock == \E x \in Mutexes : trylock(x)

(***** Specification *******************************************************)

\* the timer, the bootstrap, the dispatcher and the VM
Monitor ==
  \/ mrbc_tick
  \/ mrbc_create_task
  \/ mrbc_run_enter
  \/ mrbc_run_select
  \/ mrbc_run_idle
  \/ hal_idle_cpu
  \/ mrbc_run_set_running
  \/ mrbc_run_clear_flag
  \/ mrbc_run_switch
  \/ vm_instruction
  \/ vm_check

\* the end of a task
Termination ==
  \/ vm_terminate
  \/ mrbc_run_terminate
  \/ mrbc_run_close
  \/ mrbc_run_exit_ready
  \/ mrbc_run_exit_waiting
  \/ mrbc_run_exit_suspended

Next ==
  \/ Monitor
  \/ Termination
  \/ c_sleep_ms
  \/ mrbc_sleep_ms_flag
  \/ c_relinquish
  \/ mrbc_relinquish_flag
  \/ c_change_priority
  \/ mrbc_change_priority_slice
  \/ mrbc_change_priority_flag
  \/ c_suspend_task
  \/ mrbc_suspend_task_flag
  \/ c_resume_task
  \/ mrbc_resume_task
  \/ mrbc_mutex_lock
  \/ mrbc_mutex_unlock
  \/ mrbc_mutex_trylock

Spec == Init /\ [][Next]_vars

(***** Mutex behaviours: sleep_ms and the mutex, longer ********************)

MutexTicks == 2
MutexOps   == 6

InitMutex ==
  InitWith({TickZero},
           [notimer |-> FALSE, ticks |-> MutexTicks, ops |-> MutexOps, ms |-> 1..MaxMs,
            inits |-> [k \in Tasks |->
                         CASE k = 1 -> {CallerTcb(100, TASKSTATE_READY)}
                           [] k = 2 -> {FreshTcb}
                           [] OTHER -> {FreshTcb,
                                        CallerTcb(200, TASKSTATE_READY)}]])

NextMutex ==
  \/ Monitor
  \/ c_sleep_ms
  \/ mrbc_sleep_ms_flag
  \/ mrbc_mutex_lock
  \/ mrbc_mutex_unlock

SpecMutex == InitMutex /\ [][NextMutex]_vars

(***** Sleep behaviours: sleep_ms and the tick, across the wrap ************)

SleepTicks == 3
SleepOps   == 3

InitSleep ==
  InitWith({TickZero, TickWrap},
           [notimer |-> FALSE, ticks |-> SleepTicks, ops |-> SleepOps, ms |-> MsArgs,
            inits |-> [k \in Tasks |->
                         IF k = 1 THEN {CallerTcb(100, TASKSTATE_READY)}
                                  ELSE {FreshTcb}]])

NextSleep ==
  \/ Monitor
  \/ c_sleep_ms
  \/ mrbc_sleep_ms_flag

SpecSleep == InitSleep /\ [][NextSleep]_vars

(***** Round-robin behaviours: a whole timeslice of ticks ******************)

SliceTicks == 10
SliceOps   == 1

InitSlice ==
  InitWith({TickZero},
           [notimer |-> FALSE, ticks |-> SliceTicks, ops |-> SliceOps,
            ms |-> {TIMESLICE_TICK - 1},
            inits |-> [k \in Tasks |-> {FreshTcb}]])

SpecSlice == InitSlice /\ [][NextSleep]_vars

(***** Lock behaviours: lock, trylock and unlock with a sleeping owner ******)

LockTicks == 2
LockOps   == 6

InitLock ==
  InitWith({TickZero},
           [notimer |-> FALSE, ticks |-> LockTicks, ops |-> LockOps, ms |-> {1},
            inits |-> [k \in Tasks |->
                         IF k = 1 THEN {CallerTcb(100, TASKSTATE_READY)}
                                  ELSE {FreshTcb}]])

NextLock ==
  \/ NextMutex
  \/ mrbc_mutex_trylock

SpecLock == InitLock /\ [][NextLock]_vars

(***** Timer-less behaviours: the MRBC_NO_TIMER build **********************)

NoTimerTicks == 3
NoTimerOps   == 1

InitNoTimer ==
  InitWith({TickZero},
           [notimer |-> TRUE, ticks |-> NoTimerTicks, ops |-> NoTimerOps,
            ms |-> {1},
            inits |-> [k \in Tasks |-> {FreshTcb}]])

NextNoTimer ==
  \/ mrbc_create_task
  \/ mrbc_run_enter
  \/ mrbc_run_select
  \/ mrbc_run_idle
  \/ hal_idle_cpu
  \/ mrbc_run_set_running
  \/ nt_test
  \/ nt_flag
  \/ nt_dec
  \/ nt_tick
  \/ mrbc_run_switch
  \/ vm_instruction
  \/ vm_check
  \/ c_sleep_ms
  \/ mrbc_sleep_ms_flag
  \/ c_relinquish
  \/ mrbc_relinquish_flag
  \/ c_change_priority
  \/ mrbc_change_priority_slice
  \/ mrbc_change_priority_flag

SpecNoTimer == InitNoTimer /\ [][NextNoTimer]_vars

\* the steps of the mainline that run between hal_disable_irq and
\* hal_enable_irq (mrbc_create_task: its q_insert_task, lines 384-386; the
\* TCB it writes before is not linked yet)
CriticalSection ==
  \/ mrbc_create_task
  \/ mrbc_run_terminate
  \/ mrbc_run_switch
  \/ c_sleep_ms
  \/ c_suspend_task
  \/ c_resume_task
  \/ mrbc_resume_task
  \/ mrbc_mutex_lock
  \/ mrbc_mutex_unlock
  \/ mrbc_mutex_trylock

(***** Reading the state ***************************************************)

QueueNames == {"q_domant_", "q_ready_", "q_waiting_", "q_suspended_"}

Ready   == QSeq(Mem, "q_ready_")
Waiting == QSeq(Mem, "q_waiting_")

NoDup(s) == \A i, j \in 1..Len(s) : i # j => s[i] # s[j]

\* queue s is sorted non-decreasing by priority_preemption
Sorted(s) ==
  \A i, j \in 1..Len(s) :
     i < j => tcb[s[i]].priority_preemption <= tcb[s[j]].priority_preemption

\* in queue s with insertion history o, equal keys stand in insertion order
Fifo(s, o) ==
  \A i, j \in 1..Len(s) :
     (/\ i < j
      /\ tcb[s[i]].priority_preemption = tcb[s[j]].priority_preemption
      /\ s[i] \in Range(o) /\ s[j] \in Range(o))
       => Pos(o, s[i]) < Pos(o, s[j])

Running == {t \in alloc : tcb[t].state = TASKSTATE_RUNNING}

(***** C1 ******************************************************************)

\* C1: in every reachable state at most one task has state RUNNING.
C1_AtMostOneRunning == Cardinality(Running) <= 1

\* a task is RUNNING while another, preempted in the middle of its slice,
\* is READY again
C1_Witness ==
  \E t, u \in alloc :
     /\ t # u
     /\ tcb[t].state = TASKSTATE_RUNNING
     /\ tcb[u].state = TASKSTATE_READY
     /\ tcb[u].vm # NULL
     /\ tcb[u].timeslice \in 1..(TIMESLICE_TICK - 1)

(***** C2 ******************************************************************)

\* C2: every created TCB is linked into exactly one of the four queues, the
\* one its state selects; no other TCB is linked; every queue is an acyclic
\* list that ends in NULL and no next points to its own TCB.
C2_OneQueuePerTcb ==
  /\ \A qn \in QueueNames : NoDup(QSeq(Mem, qn))
  /\ \A t \in Tasks : tcb[t].next # t
  /\ \A t \in Tasks, qn \in QueueNames :
       t \in Range(QSeq(Mem, qn)) <=> (t \in alloc /\ qn = pp_q(tcb[t].state))

\* the dormant, the suspended and the waiting queue hold a TCB each, after a
\* tick has run
C2_Witness ==
  /\ q_domant_ # NULL
  /\ q_suspended_ # NULL
  /\ q_waiting_ # NULL
  /\ nticks > 0

(***** C3 ******************************************************************)

\* C3: the ready queue and the waiting queue are each sorted non-decreasing
\* by priority_preemption, equal keys in the order of insertion.
C3_QueuesSorted ==
  /\ Sorted(Ready) /\ Fifo(Ready, ord["q_ready_"])
  /\ Sorted(Waiting) /\ Fifo(Waiting, ord["q_waiting_"])

(***** C4 ******************************************************************)

\* a READY task on the ready queue outranks t
Outranked(t) ==
  \E a \in Range(Ready) :
     /\ tcb[a].state = TASKSTATE_READY
     /\ tcb[a].priority_preemption < tcb[t].priority_preemption

\* C4: when the dispatcher hands a task to the VM (line 412), no READY task
\* of strictly smaller priority_preemption is on the ready queue.
C4_StrictPriorityDispatch ==
  [][(pc = "clear_flag" /\ pc' = "vm") => ~Outranked(cur)']_vars

(***** C5 ******************************************************************)

ReadyNext == Walk(tcb', q_ready_', NTasks + 1)
WaitingNext == Walk(tcb', q_waiting_', NTasks + 1)

\* the tasks blocked on mutex x, in the order of the waiting queue
Waiters(x) ==
  SelectSeq(Waiting, LAMBDA t : tcb[t].reason = TASKREASON_MUTEX
                                  /\ tcb[t].mutex = x)

Ahead(s, a, b) ==
  a \in Range(s) /\ b \in Range(s) /\ Pos(s, a) < Pos(s, b)

\* the unlock step of the hand-off: the running owner A unlocks x while B,
\* of higher priority, is the first task blocked on x
C5_HandOffStep ==
  \A x \in Mutexes : \A B \in alloc :
     (/\ unlock(x)
      /\ Waiters(x) # <<>>
      /\ B = Head(Waiters(x))
      /\ tcb[B].priority_preemption < tcb[cur].priority_preemption)
       => /\ mutex'[x] = [lock |-> 1, tcb |-> B]
          /\ tcb'[B].state = TASKSTATE_READY
          /\ B \in Range(ReadyNext)
          /\ tcb'[cur].flag_preemption = 1

\* the first dispatch after a hand-off to a task of higher priority
HandOffDispatch ==
  /\ pc = "set_running" /\ pc' = "clear_flag"
  /\ handoff # <<>>
  /\ tcb[handoff[1]].priority_preemption
       < tcb[handoff[2]].priority_preemption

\* C5 as stated: A's unlock makes B the owner with the lock still 1, B READY
\* on the ready queue and A's preemption flag set, and the task the
\* dispatcher runs next is B.
C5_HandOffRunsNext ==
  [][/\ C5_HandOffStep
     /\ HandOffDispatch => cur = handoff[1]]_vars

\* C5 amended: the same unlock step; the task the dispatcher runs next is B
\* unless it is a task that stands ahead of B on the ready queue, whose
\* priority_preemption is then no larger than B's.
C5_HandOffRunsNextUnlessOutranked ==
  [][/\ C5_HandOffStep
     /\ HandOffDispatch =>
          \/ cur = handoff[1]
          \/ /\ Ahead(Ready, cur, handoff[1])
             /\ tcb[handoff[1]].state = TASKSTATE_READY
             /\ tcb[cur].priority_preemption
                  <= tcb[handoff[1]].priority_preemption]_vars

\* B, handed the mutex by a task of lower priority, is being dispatched
C5_Witness ==
  /\ pc = "set_running"
  /\ handoff # <<>>
  /\ cur = handoff[1]
  /\ tcb[handoff[1]].priority_preemption < tcb[handoff[2]].priority_preemption
  /\ \E x \in Mutexes : mutex[x] = [lock |-> 1, tcb |-> cur]
  /\ tcb[handoff[2]].state = TASKSTATE_READY

(***** C6 ******************************************************************)

\* C6: an unlock of x by its owner with k >= 1 tasks blocked on x makes
\* exactly one of them READY, the one of smallest priority_preemption and
\* among equals the one that blocked first, and leaves every other waiting
\* task as it was; with k = 0 it sets lock to 0 and wakes nobody.
C6_UnlockWakesFirstWaiter ==
  [][\A x \in Mutexes :
       unlock(x) =>
         IF Waiters(x) = <<>>
         THEN /\ mutex'[x].lock = 0
              /\ \A t \in Tasks : tcb'[t].state = tcb[t].state
              /\ WaitingNext = Waiting /\ ReadyNext = Ready
         ELSE \E w \in Range(Waiters(x)) :
                /\ tcb'[w].state = TASKSTATE_READY
                /\ w \in Range(ReadyNext)
                /\ mutex'[x].lock = 1
                /\ \A t \in Tasks \ {w} :
                     /\ tcb'[t].state = tcb[t].state
                     /\ t \in Range(Waiting) <=> t \in Range(WaitingNext)
                /\ \A u \in Range(Waiters(x)) \ {w} :
                     /\ tcb[w].priority_preemption
                          <= tcb[u].priority_preemption
                     /\ tcb[w].priority_preemption
                          = tcb[u].priority_preemption
                          => Ahead(ord["q_waiting_"], w, u)]_vars

\* an unlock has woken one of two tasks of equal priority blocked on the same
\* mutex, the other is still blocked
C6_Witness ==
  /\ handoff # <<>>
  /\ pc = "vm_check"
  /\ tcb[handoff[1]].state = TASKSTATE_READY
  /\ \E u \in alloc :
       /\ u # handoff[1]
       /\ tcb[u].state = TASKSTATE_WAITING
       /\ tcb[u].reason = TASKREASON_MUTEX
       /\ tcb[u].mutex = tcb[handoff[1]].mutex
       /\ mutex[tcb[u].mutex].tcb = handoff[1]
       /\ tcb[u].priority_preemption = tcb[handoff[1]].priority_preemption

(***** C7 ******************************************************************)

Sleeping(t) ==
  /\ t \in alloc
  /\ tcb[t].state = TASKSTATE_WAITING
  /\ tcb[t].reason = TASKREASON_SLEEP

\* C7: a task that called sleep_ms(ms), ms >= 1, stays WAITING for SLEEP on
\* the waiting queue through every step but the ms-th tick after the call;
\* that tick makes it READY on the ready queue with timeslice TIMESLICE_TICK.
C7_SleepWakesOnTime ==
  [][\A t \in Tasks :
       (Sleeping(t) /\ slept[t].ms >= 1) =>
         IF tick_' # tick_ /\ slept[t].el + 1 = slept[t].ms
         THEN /\ tcb'[t].state = TASKSTATE_READY
              /\ tcb'[t].timeslice = TIMESLICE_TICK
              /\ t \in Range(ReadyNext)
              /\ t \notin Range(WaitingNext)
         ELSE /\ tcb'[t].state = TASKSTATE_WAITING
              /\ tcb'[t].reason = TASKREASON_SLEEP
              /\ t \in Range(WaitingNext)]_vars

\* the counter has wrapped to 0 on its second tick and that tick has woken
\* two sleepers at once
C7_Witness ==
  /\ tick_ = TickZero
  /\ nticks = 2
  /\ \E t, u \in alloc :
       /\ t # u
       /\ slept[t].ms = 1 /\ slept[u].ms = 2
       /\ \A v \in {t, u} :
            /\ slept[v].el = slept[v].ms
            /\ tcb[v].state = TASKSTATE_READY
            /\ tcb[v].wakeup_tick = tick_
            /\ tcb[v].timeslice = TIMESLICE_TICK
            /\ v \in Range(Ready)

(***** C8 ******************************************************************)

\* C8: a task that called sleep_ms(0) is made READY by the first tick after
\* the call.
C8_SleepZeroWakesNextTick ==
  [][\A t \in Tasks :
       (Sleeping(t) /\ slept[t].ms = 0 /\ slept[t].el = 0
          /\ tick_' # tick_)
         => tcb'[t].state = TASKSTATE_READY]_vars

(***** C9 ******************************************************************)

\* C9: once a tick has taken the running task's timeslice to zero its slice
\* ends: the VM never goes on running a task whose timeslice is zero without
\* the preemption flag that ends the slice, wherever the ticks fall among
\* the dispatcher's statements.
C9_NeverRunsPastExpiredSlice ==
  (pc = "vm" /\ tcb[cur].timeslice = 0) => tcb[cur].flag_preemption = 1

(***** C11 *****************************************************************)

\* C11: trylock of a locked mutex returns non-zero and changes nothing: the
\* mutex, every TCB's state and reason and the four queues stay as they were;
\* trylock of an unlocked mutex makes the caller its owner with lock 1 and
\* returns 0.
C11_TrylockNeverBlocks ==
  [][\A x \in Mutexes :
       trylock(x) =>
         IF mutex[x].lock # 0
         THEN /\ ret' # 0
              /\ mutex' = mutex
              /\ \A t \in Tasks : /\ tcb'[t].state = tcb[t].state
                                  /\ tcb'[t].reason = tcb[t].reason
                                  /\ tcb'[t].next = tcb[t].next
              /\ <<q_domant_, q_ready_, q_waiting_, q_suspended_>>'
                   = <<q_domant_, q_ready_, q_waiting_, q_suspended_>>
         ELSE /\ ret' = 0
              /\ mutex'[x] = [lock |-> 1, tcb |-> cur]]_vars

\* a trylock has failed on a mutex another task holds; the caller is still
\* RUNNING on the ready queue
C11_Witness ==
  /\ pc = "vm_check"
  /\ ret = 1
  /\ tcb[cur].state = TASKSTATE_RUNNING
  /\ cur \in Range(Ready)
  /\ \E x \in Mutexes : /\ mutex[x].lock = 1
                         /\ mutex[x].tcb \in alloc \ {cur}
                         /\ tcb[mutex[x].tcb].state = TASKSTATE_WAITING

(***** C10 *****************************************************************)

\* C10: mrbc_run returns only when the ready, waiting and suspended queues
\* are all empty.
C10_ReturnsWhenDrained ==
  pc = "done" => (q_ready_ = NULL /\ q_waiting_ = NULL /\ q_suspended_ = NULL)

(***** C12 *****************************************************************)

\* C12: the resume of a suspended task t leaves t READY on the ready queue,
\* priority and priority_preemption as before, timeslice TIMESLICE_TICK, and
\* behind every task of equal priority_preemption already on the ready queue.
C12_ResumeReplenishes ==
  [][\A t \in Tasks :
       (tcb[t].state = TASKSTATE_SUSPENDED /\ tcb'[t].state = TASKSTATE_READY)
         => /\ t \in Range(ReadyNext)
            /\ tcb'[t].priority = tcb[t].priority
            /\ tcb'[t].priority_preemption = tcb[t].priority_preemption
            /\ tcb'[t].timeslice = TIMESLICE_TICK
            /\ \A u \in Range(Ready) :
                 tcb[u].priority_preemption = tcb[t].priority_preemption
                   => Ahead(ReadyNext, u, t)]_vars

(***** C13 *****************************************************************)

\* C13: a TCB that mrbc_create_task was given in state DORMANT, for which no
\* VM was opened, is READY after the call, on the ready queue and on no
\* other, with timeslice TIMESLICE_TICK and priority_preemption = priority.
C13_DormantTcbReentersReady ==
  pc = "boot" =>
    \A t \in alloc :
       tcb[t].vm = NULL =>
         /\ tcb[t].state = TASKSTATE_READY
         /\ t \in Range(Ready)
         /\ \A qn \in QueueNames \ {"q_ready_"} : t \notin Range(QSeq(Mem, qn))
         /\ tcb[t].timeslice = TIMESLICE_TICK
         /\ tcb[t].priority_preemption = tcb[t].priority

(***** C14 *****************************************************************)

\* C14: in the MRBC_NO_TIMER build a task whose timeslice a guest operation
\* has set to 0 inside its VM dispatch leaves the slice loop at that point,
\* and no task gets more than TIMESLICE_TICK VM dispatches before the
\* dispatcher selects again.
C14_NoTimerSliceEnds ==
  [][/\ (pc = "nt_dec" /\ tcb[cur].timeslice = 0) => pc' = "nt_tick"
     /\ hist'.ndisp <= TIMESLICE_TICK]_vars

(***** C15 *****************************************************************)

\* the dispatcher has selected cur and has not yet seen its VM slice end
Selected == pc \in {"set_running", "clear_flag", "vm"}

\* this step is a tick that wakes a sleeper of higher priority than cur
WakesOutranking ==
  /\ tick_' # tick_
  /\ \E a \in Tasks :
       /\ Sleeping(a)
       /\ tcb'[a].state = TASKSTATE_READY
       /\ tcb[a].priority_preemption < tcb[cur].priority_preemption

\* C15: a tick that wakes a sleeper of higher priority than the task the
\* dispatcher has selected or is running sets that task's preemption flag,
\* and the flag is still set when the task is handed to the VM, so the
\* preemption is not lost.
C15_WakeupPreemptionKept ==
  [][/\ (Selected /\ WakesOutranking) => tcb'[cur].flag_preemption = 1
     /\ (pc = "clear_flag" /\ pc' = "vm" /\ Outranked(cur))
          => tcb'[cur].flag_preemption = 1]_vars

(***** C16 *****************************************************************)

\* the fields of t that the tick handler reads
Guarded(t) ==
  <<tcb[t].state, tcb[t].reason, tcb[t].wakeup_tick, tcb[t].timeslice,
    tcb[t].next, tcb[t].mutex>>

\* this step writes a queue head, a guarded TCB field or a mutex record
GuardedWrite ==
  \/ \E t \in Tasks : Guarded(t)' # Guarded(t)
  \/ <<q_domant_, q_ready_, q_waiting_, q_suspended_>>'
       # <<q_domant_, q_ready_, q_waiting_, q_suspended_>>
  \/ mutex' # mutex

\* C16: every step of the mainline that writes a queue link, a TCB's state,
\* reason, wakeup_tick, timeslice, next or awaited mutex, or a mutex record,
\* runs with interrupts disabled; only the preemption flag is written with
\* interrupts enabled.
C16_GuardedWritesInCriticalSection ==
  [][(GuardedWrite /\ tick_' = tick_) => CriticalSection]_vars

(***** C17 *****************************************************************)

\* C17: at the moment the dispatcher calls hal_idle_cpu (line 402) the ready
\* queue is empty, also when a tick falls between the read of the head
\* (line 399) and the call.
C17_IdleOnlyWhenNoneReady ==
  [][(pc = "idle_call" /\ pc' = "idle") => q_ready_ = NULL]_vars

(***** C18 *****************************************************************)

\* C18: a task whose timeslice is greater than 0 is READY or RUNNING.
C18_TimesliceOnlyWhileRunnable ==
  \A t \in alloc :
     tcb[t].timeslice > 0 =>
       tcb[t].state \in {TASKSTATE_READY, TASKSTATE_RUNNING}

(***** C19 *****************************************************************)

\* C19: a mutex with lock = 1 has an owner that is a created task and not
\* DORMANT, and a mutex with lock = 0 has no task blocked on it.
C19_LockedMutexHasLiveOwner ==
  \A x \in Mutexes :
     /\ mutex[x].lock = 1 =>
          /\ mutex[x].tcb \in alloc
          /\ tcb[mutex[x].tcb].state # TASKSTATE_DOMANT
     /\ mutex[x].lock = 0 => Waiters(x) = <<>>

(***** C20 *****************************************************************)

\* C20: at most one task at a time is past a successful lock or trylock of a
\* mutex and before its unlock, a task that blocked in lock goes on only as
\* the owner, and the recorded owner is the task inside.
C20_MutualExclusion ==
  \A x \in Mutexes :
     /\ Cardinality(hist.inside[x]) <= 1
     /\ hist.inside[x] # {} =>
          /\ mutex[x].lock = 1
          /\ hist.inside[x] = {mutex[x].tcb}

\* a task that blocked on x is running again, inside, after the owner's
\* unlock handed x to it
C20_Witness ==
  /\ pc = "vm"
  /\ tcb[cur].state = TASKSTATE_RUNNING
  /\ tcb[cur].reason = TASKREASON_MUTEX
  /\ \E x \in Mutexes :
       /\ tcb[cur].mutex = x
       /\ hist.inside[x] = {cur}
       /\ mutex[x] = [lock |-> 1, tcb |-> cur]
  /\ \E a \in alloc \ {cur} : tcb[a].state = TASKSTATE_READY

====
